---- MODULE Spec2Model ----
(***************************************************************************)
(* craft_platforms._distro: the DistroBase value type (a distribution     *)
(* name and a version series), its equality and ordering operators,       *)
(* DistroBase.from_str, _get_version_tuple and is_ubuntu_like.            *)
(*                                                                         *)
(* A Python str is a sequence of one-character strings, so that split,    *)
(* count, partition and int() are computed as the interpreter computes     *)
(* them.  An element of a version tuple is a record: [int |-> TRUE, n, s]  *)
(* for a Python int, [int |-> FALSE, n, s] for a Python str.               *)
(***************************************************************************)
EXTENDS Integers, Sequences, FiniteSets, TLC

VARIABLES
    scenario,   \* which entry point the caller exercises
    self,       \* the DistroBase the operator is called on
    other,      \* the operand of a comparison
    text,       \* the str handed to from_str or _get_version_tuple
    descriptor, \* the argument of is_ubuntu_like: a descriptor or None
    host,       \* the descriptor distro.LinuxDistribution() reads from the host
    op,         \* the operation last evaluated
    outcome,    \* "True", "False", an exception name, or the kind of value returned
    message,    \* the message of the exception raised
    value       \* the value returned (a DistroBase or a version tuple)

vars == <<scenario, self, other, text, descriptor, host, op, outcome, message, value>>

----------------------------------------------------------------------------
(* Bounds of the inputs *)

\* most dot-separated tokens in a series handed to a comparison
MaxParts == 2
\* longest operand tuple handed to a comparison
MaxTupleLen == 3
\* longest str handed to from_str and to _get_version_tuple
MaxLen == 3
\* most fragments in the id and in the like field of a descriptor
MaxFrags == 2

----------------------------------------------------------------------------
(* Python str *)

ubuntu == <<"u", "b", "u", "n", "t", "u">>
debian == <<"d", "e", "b", "i", "a", "n">>

\* The code point of a character, for the characters of the model's alphabets.
Ord(c) ==
    CASE c = "\t" -> 9
      [] c = " " -> 32
      [] c = "+" -> 43
      [] c = "-" -> 45
      [] c = "." -> 46
      [] c = "0" -> 48
      [] c = "1" -> 49
      [] c = "2" -> 50
      [] c = "@" -> 64
      [] c = "B" -> 66
      [] c = "U" -> 85
      [] c = "a" -> 97
      [] c = "b" -> 98
      [] c = "u" -> 117
      [] c = "x" -> 120

\* All sequences over alphabet of length 0..n.
StringsUpTo(alphabet, n) == UNION {[1..k -> alphabet] : k \in 0..n}

RECURSIVE Concat(_)
Concat(ss) == IF ss = <<>> THEN <<>> ELSE Head(ss) \o Concat(Tail(ss))

Min(a, b) == IF a < b THEN a ELSE b

\* The first position at which two sequences differ, 0 when one is a prefix
\* of the other.
FirstDiff(x, y) ==
    LET D == {i \in 1..Min(Len(x), Len(y)) : x[i] # y[i]}
    IN  IF D = {} THEN 0 ELSE CHOOSE i \in D : \A j \in D : i <= j

\* str < str: by code point at the first difference, else the shorter first.
StrLt(x, y) ==
    LET i == FirstDiff(x, y)
    IN  IF i = 0 THEN Len(x) < Len(y) ELSE Ord(x[i]) < Ord(y[i])

\* str.count(c) for a one-character c
Count(s, c) == Cardinality({i \in 1..Len(s) : s[i] = c})

\* str.split(sep) for a one-character sep: every separator ends a token,
\* empty tokens are kept.
RECURSIVE Split(_, _)
Split(s, sep) ==
    LET P == {i \in 1..Len(s) : s[i] = sep}
    IN  IF P = {} THEN <<s>>
        ELSE LET i == CHOOSE p \in P : \A q \in P : p <= q
             IN  <<SubSeq(s, 1, i - 1)>> \o Split(SubSeq(s, i + 1, Len(s)), sep)

IsSpace(c) == c \in {" ", "\t"}

\* str.split() with no separator: runs of whitespace separate the tokens
\* and no token is empty.
RECURSIVE SplitWhitespace(_)
SplitWhitespace(s) ==
    IF s = <<>> THEN <<>>
    ELSE IF IsSpace(s[1]) THEN SplitWhitespace(Tail(s))
    ELSE LET P == {i \in 1..Len(s) : IsSpace(s[i])}
         IN  IF P = {} THEN <<s>>
             ELSE LET i == CHOOSE p \in P : \A q \in P : p <= q
                  IN  <<SubSeq(s, 1, i - 1)>>
                        \o SplitWhitespace(SubSeq(s, i + 1, Len(s)))

\* str.partition(sep): the text before the first sep, sep, the text after it;
\* (s, "", "") when s holds no sep.
Partition(s, sep) ==
    LET P == {i \in 1..Len(s) : s[i] = sep}
    IN  IF P = {} THEN <<s, <<>>, <<>>>>
        ELSE LET i == CHOOSE p \in P : \A q \in P : p <= q
             IN  <<SubSeq(s, 1, i - 1), <<sep>>, SubSeq(s, i + 1, Len(s))>>

\* repr(s) of a str holding no quote and no escape: s in single quotes.
Repr(s) == <<"'">> \o s \o <<"'">>

IsDigit(c) == c \in {"0", "1", "2"}
DigitVal(c) == Ord(c) - 48

\* The digits of an integer literal: the token less one leading sign.
\* (int() also strips whitespace and accepts "_" between digits; neither is
\* in the alphabet of the version strings.)
Digits(tok) == IF tok # <<>> /\ tok[1] \in {"+", "-"} THEN Tail(tok) ELSE tok

\* Whether int(tok) returns rather than raising ValueError.
IntParses(tok) ==
    /\ Digits(tok) # <<>>
    /\ \A i \in 1..Len(Digits(tok)) : IsDigit(Digits(tok)[i])

RECURSIVE Decimal(_)
Decimal(ds) ==
    IF ds = <<>> THEN 0
    ELSE 10 * Decimal(SubSeq(ds, 1, Len(ds) - 1)) + DigitVal(ds[Len(ds)])

\* int(tok), for a token that parses.
IntOf(tok) ==
    IF tok[1] = "-" THEN 0 - Decimal(Digits(tok)) ELSE Decimal(Digits(tok))

PyInt(n) == [int |-> TRUE, n |-> n, s |-> <<>>]
PyStr(s) == [int |-> FALSE, n |-> 0, s |-> s]

----------------------------------------------------------------------------
(* Python values and results *)

None == [shape |-> "None"]

\* An instance of the dataclass DistroBase.
DistroBase(distribution, series) ==
    [shape |-> "DistroBase", distribution |-> distribution, series |-> series]

\* An object with the attributes of the BaseName protocol.
BaseName(name, version) ==
    [shape |-> "BaseName", name |-> name, version |-> version]

\* A Python tuple of str.
Tuple(items) == [shape |-> "tuple", items |-> items]

IsDistroBase(x) == x.shape = "DistroBase"
IsBaseName(x) == x.shape = "BaseName"
IsTuple(x) == x.shape = "tuple"

\* What a call ends with: the value of its outcome or the exception raised.
Return(o) == [raised |-> FALSE, outcome |-> o, message |-> <<>>]
Raise(exc, msg) == [raised |-> TRUE, outcome |-> exc, message |-> msg]
Bool(b) == Return(IF b THEN "True" ELSE "False")
Raised(r) == r.raised

IndexErrorMsg == <<"tuple index out of range">>
NotSubscriptableMsg == <<"'NoneType' object is not subscriptable">>
NotSupportedMsg == <<"not supported between instances of 'int' and 'str'">>

----------------------------------------------------------------------------
(* _get_version_tuple, _get_version *)

\* Mutant: every token is left a str.
VersionTupleOfStrings(version_str) ==
    LET parts == Split(version_str, ".")
    IN  [idx \in 1..Len(parts) |-> PyStr(parts[idx])]

\* Mutant: empty tokens are dropped.
VersionTupleDropEmpty(version_str) ==
    LET parts == SelectSeq(Split(version_str, "."), LAMBDA t : t # <<>>)
    IN  [idx \in 1..Len(parts) |->
            IF IntParses(parts[idx]) THEN PyInt(IntOf(parts[idx]))
            ELSE PyStr(parts[idx])]

_get_version_tuple(version_str) ==
    LET parts == Split(version_str, ".")
    IN  [idx \in 1..Len(parts) |->
            IF IntParses(parts[idx]) THEN PyInt(IntOf(parts[idx]))
            ELSE PyStr(parts[idx])]

\* Mutant: the version of a pair is read from its first item.
GetVersionPairFirst(base) ==
    IF IsDistroBase(base) THEN Return(base.series)
    ELSE IF IsBaseName(base) THEN Return(base.version)
    ELSE IF ~IsTuple(base) THEN Raise("TypeError", NotSubscriptableMsg)
    ELSE IF Len(base.items) < 1 THEN Raise("IndexError", IndexErrorMsg)
    ELSE Return(base.items[1])

\* base[1] of a tuple raises IndexError on a tuple of fewer than two
\* items, and None[1] raises TypeError.
_get_version(base) ==
    IF IsDistroBase(base) THEN Return(base.series)
    ELSE IF IsBaseName(base) THEN Return(base.version)
    ELSE IF ~IsTuple(base) THEN Raise("TypeError", NotSubscriptableMsg)
    ELSE IF Len(base.items) < 2 THEN Raise("IndexError", IndexErrorMsg)
    ELSE Return(base.items[2])

----------------------------------------------------------------------------
(* Comparison of two version tuples, as the interpreter compares tuples:   *)
(* the items at the first position where the two differ decide, and an     *)
(* int against a str there raises TypeError; with no such position the     *)
(* lengths decide.                                                         *)

IntCompare(rel, a, b) ==
    CASE rel = "<" -> a < b
      [] rel = "<=" -> a <= b
      [] rel = ">" -> a > b
      [] rel = ">=" -> a >= b

StrCompare(rel, a, b) ==
    CASE rel = "<" -> StrLt(a, b)
      [] rel = "<=" -> ~StrLt(b, a)
      [] rel = ">" -> StrLt(b, a)
      [] rel = ">=" -> ~StrLt(a, b)

ItemCompare(rel, a, b) ==
    IF a.int /\ b.int THEN Bool(IntCompare(rel, a.n, b.n))
    ELSE IF ~a.int /\ ~b.int THEN Bool(StrCompare(rel, a.s, b.s))
    ELSE Raise("TypeError", NotSupportedMsg)

\* Mutant: a tuple that is a prefix of the other compares equal to it.
TupleCompareIgnoreLength(rel, x, y) ==
    LET i == FirstDiff(x, y)
    IN  IF i = 0 THEN Bool(rel \in {"<=", ">="})
        ELSE ItemCompare(rel, x[i], y[i])

TupleCompare(rel, x, y) ==
    LET i == FirstDiff(x, y)
    IN  IF i = 0 THEN Bool(IntCompare(rel, Len(x), Len(y)))
        ELSE ItemCompare(rel, x[i], y[i])

----------------------------------------------------------------------------
(* DistroBase *)

DifferentDistributionsMsg(a, b) ==
    <<"Different distributions (">> \o a \o <<" and ">> \o b
        \o <<") do not have comparable versions.">>

\* other[0] of a tuple raises IndexError on the empty tuple, and None[0]
\* raises TypeError.
_ensure_bases_comparable(slf, oth) ==
    LET other_distro ==
            IF IsDistroBase(oth) THEN Return(oth.distribution)
            ELSE IF IsBaseName(oth) THEN Return(oth.name)
            ELSE IF ~IsTuple(oth) THEN Raise("TypeError", NotSubscriptableMsg)
            ELSE IF Len(oth.items) < 1 THEN Raise("IndexError", IndexErrorMsg)
            ELSE Return(oth.items[1])
    IN  IF Raised(other_distro) THEN other_distro
        ELSE IF slf.distribution # other_distro.outcome
        THEN Raise("ValueError",
                   DifferentDistributionsMsg(slf.distribution, other_distro.outcome))
        ELSE Return("None")

\* Mutant: the versions are converted and compared before the distributions
\* are checked.
OrderingCompareFirst(rel, slf, oth) ==
    LET comparable == _ensure_bases_comparable(slf, oth)
        other_version == _get_version(oth)
        compared == TupleCompare(rel, _get_version_tuple(slf.series),
                                 _get_version_tuple(other_version.outcome))
    IN  IF Raised(other_version) THEN other_version
        ELSE IF Raised(compared) THEN compared
        ELSE IF Raised(comparable) THEN comparable
        ELSE compared

\* The body shared by __lt__, __le__, __gt__ and __ge__.
Ordering(rel, slf, oth) ==
    LET comparable == _ensure_bases_comparable(slf, oth)
        self_version_tuple == _get_version_tuple(slf.series)
        other_version == _get_version(oth)
    IN  IF Raised(comparable) THEN comparable
        ELSE IF Raised(other_version) THEN other_version
        ELSE TupleCompare(rel, self_version_tuple,
                          _get_version_tuple(other_version.outcome))

__lt__(slf, oth) == Ordering("<", slf, oth)
__le__(slf, oth) == Ordering("<=", slf, oth)
__gt__(slf, oth) == Ordering(">", slf, oth)
__ge__(slf, oth) == Ordering(">=", slf, oth)

\* Mutant: two series are equal when their version tuples are.
EqByVersionTuple(slf, oth) ==
    LET same(a, b) == _get_version_tuple(a) = _get_version_tuple(b)
    IN  IF IsDistroBase(oth)
        THEN Bool(slf.distribution = oth.distribution /\ same(slf.series, oth.series))
        ELSE IF IsBaseName(oth)
        THEN Bool(slf.distribution = oth.name /\ same(slf.series, oth.version))
        ELSE IF IsTuple(oth)
        THEN IF Len(oth.items) < 1 THEN Raise("IndexError", IndexErrorMsg)
             ELSE IF slf.distribution # oth.items[1] THEN Bool(FALSE)
             ELSE IF Len(oth.items) < 2 THEN Raise("IndexError", IndexErrorMsg)
             ELSE Bool(same(slf.series, oth.items[2]))
        ELSE Return("NotImplemented")

\* `and` evaluates other[1] only when self.distribution == other[0].
__eq__(slf, oth) ==
    IF IsDistroBase(oth)
    THEN Bool(slf.distribution = oth.distribution /\ slf.series = oth.series)
    ELSE IF IsBaseName(oth)
    THEN Bool(slf.distribution = oth.name /\ slf.series = oth.version)
    ELSE IF IsTuple(oth)
    THEN IF Len(oth.items) < 1 THEN Raise("IndexError", IndexErrorMsg)
         ELSE IF slf.distribution # oth.items[1] THEN Bool(FALSE)
         ELSE IF Len(oth.items) < 2 THEN Raise("IndexError", IndexErrorMsg)
         ELSE Bool(slf.series = oth.items[2])
    ELSE Return("NotImplemented")

\* self == other: NotImplemented from __eq__ sends the interpreter to the
\* operand's own __eq__, and with none that applies to identity, which is
\* False of two distinct objects.
EqExpr(slf, oth) ==
    LET r == __eq__(slf, oth)
    IN  IF ~Raised(r) /\ r.outcome = "NotImplemented" THEN Bool(FALSE) ELSE r

\* self != other: the class defines no __ne__, so the interpreter negates
\* what __eq__ returns.
NeExpr(slf, oth) ==
    LET r == __eq__(slf, oth)
    IN  IF Raised(r) THEN r
        ELSE IF r.outcome = "NotImplemented" THEN Bool(TRUE)
        ELSE Bool(r.outcome = "False")

InvalidBaseStringMsg(base_str) ==
    <<"Invalid base string ">> \o Repr(base_str)
        \o <<". Format should be '<distribution>@<series>'">>

\* Mutant: any string with an "@" is split at the first one.
FromStrAtLeastOne(base_str) ==
    IF Count(base_str, "@") < 1
    THEN [outcome |-> "ValueError", message |-> InvalidBaseStringMsg(base_str),
          value |-> None]
    ELSE LET p == Partition(base_str, "@")
         IN  [outcome |-> "DistroBase", message |-> <<>>,
              value |-> DistroBase(p[1], p[3])]

from_str(base_str) ==
    IF Count(base_str, "@") # 1
    THEN [outcome |-> "ValueError", message |-> InvalidBaseStringMsg(base_str),
          value |-> None]
    ELSE LET p == Partition(base_str, "@")
         IN  [outcome |-> "DistroBase", message |-> <<>>,
              value |-> DistroBase(p[1], p[3])]

----------------------------------------------------------------------------
(* is_ubuntu_like *)

\* What the function reads of a distro.LinuxDistribution: id() and like().
LinuxDistribution(id, like) == [shape |-> "LinuxDistribution", id |-> id, like |-> like]

\* Mutant: "ubuntu" is looked for anywhere in the like field.
IsUbuntuLikeSubstring(distribution, hostDistribution) ==
    LET d == IF distribution.shape = "None" THEN hostDistribution ELSE distribution
    IN  IF d.id = ubuntu THEN TRUE
        ELSE \E i \in 0..(Len(d.like) - 6) : SubSeq(d.like, i + 1, i + 6) = ubuntu

is_ubuntu_like(distribution, hostDistribution) ==
    LET d == IF distribution.shape = "None" THEN hostDistribution ELSE distribution
        distros_like == SplitWhitespace(d.like)
    IN  IF d.id = ubuntu THEN TRUE
        ELSE IF \E i \in 1..Len(distros_like) : distros_like[i] = ubuntu THEN TRUE
        ELSE FALSE

----------------------------------------------------------------------------
(* The inputs *)

\* Tokens of the series compared: numbers whose textual and numeric orders
\* differ ("12" and "2"), a number with a leading zero and a word.
Tokens == {<<"2">>, <<"1", "2">>, <<"0", "2">>, <<"a">>}

RECURSIVE Join(_, _)
Join(ts, sep) ==
    IF Len(ts) = 1 THEN ts[1] ELSE ts[1] \o <<sep>> \o Join(Tail(ts), sep)

\* The series compared: the empty series, a capitalised word, and up to
\* MaxParts tokens joined by dots.
SeriesPool ==
    {<<>>, <<"B">>}
        \cup {Join(ts, ".") : ts \in UNION {[1..k -> Tokens] : k \in 1..MaxParts}}

Distributions == {ubuntu, debian}

\* The first k items of (distribution, version, "x", "x", ...).
Items(d, v, k) == [i \in 1..k |-> IF i = 1 THEN d ELSE IF i = 2 THEN v ELSE <<"x">>]

Operands ==
    {DistroBase(d, v) : d \in Distributions, v \in SeriesPool}
        \cup {BaseName(d, v) : d \in Distributions, v \in SeriesPool}
        \cup {Tuple(Items(d, v, k)) : d \in Distributions, v \in SeriesPool,
                                      k \in 0..MaxTupleLen}
        \cup {None}

BaseStrAlphabet == {"@", "u", "U", " "}
VersionAlphabet == {"0", "1", ".", "a", "-"}

IdFragments == {ubuntu, <<"x">>, <<"U", "b", "u", "n", "t", "u">>}
LikeFragments == {ubuntu, <<"x">>, <<" ">>, <<"\t">>}

Fragmented(frags, n) == {Concat(fs) : fs \in UNION {[1..k -> frags] : k \in 0..n}}

Descriptors ==
    {LinuxDistribution(id, like) : id \in Fragmented(IdFragments, MaxFrags),
                                   like \in Fragmented(LikeFragments, MaxFrags + 1)}

Hosts == {LinuxDistribution(ubuntu, debian), LinuxDistribution(debian, <<>>)}

----------------------------------------------------------------------------
(* The state machine: the caller holds the arguments of one entry point   *)
(* and evaluates one operation that takes them.                            *)

NoCall == /\ op = "none" /\ outcome = "none" /\ message = <<>> /\ value = None

Init ==
    /\ NoCall
    /\ \/ /\ scenario = "compare"
          /\ self \in {DistroBase(d, v) : d \in Distributions, v \in SeriesPool}
          /\ other \in Operands
          /\ text = <<>> /\ descriptor = None /\ host = None
       \/ /\ scenario = "from_str"
          /\ text \in StringsUpTo(BaseStrAlphabet, MaxLen)
          /\ self = None /\ other = None /\ descriptor = None /\ host = None
       \/ /\ scenario = "version_tuple"
          /\ text \in StringsUpTo(VersionAlphabet, MaxLen)
          /\ self = None /\ other = None /\ descriptor = None /\ host = None
       \/ /\ scenario = "is_ubuntu_like"
          /\ descriptor \in Descriptors \cup {None}
          /\ host \in Hosts
          /\ self = None /\ other = None /\ text = <<>>

Inputs == <<scenario, self, other, text, descriptor, host>>

\* The caller evaluates an operator of self against other.
Evaluate(name, r) ==
    /\ scenario = "compare"
    /\ op = "none"
    /\ op' = name
    /\ outcome' = r.outcome
    /\ message' = r.message
    /\ UNCHANGED <<value, Inputs>>

Lt == Evaluate("<", __lt__(self, other))
Le == Evaluate("<=", __le__(self, other))
Gt == Evaluate(">", __gt__(self, other))
Ge == Evaluate(">=", __ge__(self, other))
Eq == Evaluate("==", EqExpr(self, other))
Ne == Evaluate("!=", NeExpr(self, other))

FromStr ==
    /\ scenario = "from_str"
    /\ op = "none"
    /\ LET r == from_str(text)
       IN  /\ op' = "from_str"
           /\ outcome' = r.outcome
           /\ message' = r.message
           /\ value' = r.value
    /\ UNCHANGED Inputs

GetVersionTuple ==
    /\ scenario = "version_tuple"
    /\ op = "none"
    /\ op' = "_get_version_tuple"
    /\ outcome' = "tuple"
    /\ value' = _get_version_tuple(text)
    /\ UNCHANGED <<message, Inputs>>

IsUbuntuLike ==
    /\ scenario = "is_ubuntu_like"
    /\ op = "none"
    /\ op' = "is_ubuntu_like"
    /\ outcome' = (IF is_ubuntu_like(descriptor, host) THEN "True" ELSE "False")
    /\ UNCHANGED <<message, value, Inputs>>

Next ==
    \/ Lt \/ Le \/ Gt \/ Ge \/ Eq \/ Ne
    \/ FromStr
    \/ GetVersionTuple
    \/ IsUbuntuLike

Spec == Init /\ [][Next]_vars

----------------------------------------------------------------------------
(* Vocabulary of the properties *)

OrderingOps == {"<", "<=", ">", ">="}

\* The three shapes a base comes in: a DistroBase, a named base, a pair.
IsBaseShape(x) == IsDistroBase(x) \/ IsBaseName(x) \/ (IsTuple(x) /\ Len(x.items) = 2)

BaseDistribution(x) ==
    IF IsDistroBase(x) THEN x.distribution
    ELSE IF IsBaseName(x) THEN x.name ELSE x.items[1]

BaseVersion(x) ==
    IF IsDistroBase(x) THEN x.series
    ELSE IF IsBaseName(x) THEN x.version ELSE x.items[2]

\* sub occurs in msg as a contiguous run.
Contains(msg, sub) ==
    \E i \in 0..(Len(msg) - Len(sub)) : SubSeq(msg, i + 1, i + Len(sub)) = sub

Compared == scenario = "compare" /\ op # "none"

\* The expression `a <rel> b` for a DistroBase a.
Expr(rel, a, b) ==
    CASE rel = "<" -> __lt__(a, b)
      [] rel = "<=" -> __le__(a, b)
      [] rel = ">" -> __gt__(a, b)
      [] rel = ">=" -> __ge__(a, b)
      [] rel = "==" -> EqExpr(a, b)
      [] rel = "!=" -> NeExpr(a, b)

\* Whether `self <rel> other` is true: what the caller evaluated when rel is
\* the operator of the state, the operator's result otherwise.
Holds(rel) ==
    IF rel = op THEN outcome = "True"
    ELSE LET r == Expr(rel, self, other) IN ~Raised(r) /\ r.outcome = "True"

\* The k-th "." of v, 0 before the first and Len(v) + 1 after the last.
DotAt(v, k) ==
    IF k = 0 THEN 0
    ELSE IF k > Cardinality({p \in 1..Len(v) : v[p] = "."}) THEN Len(v) + 1
    ELSE CHOOSE p \in 1..Len(v) :
            /\ v[p] = "."
            /\ Cardinality({q \in 1..(p - 1) : v[q] = "."}) = k - 1

\* The i-th dot-separated token of v, by the positions of the dots.
TokenAt(v, i) == SubSeq(v, DotAt(v, i - 1) + 1, DotAt(v, i) - 1)

NumTokens(v) == Cardinality({p \in 1..Len(v) : v[p] = "."}) + 1

IsDecimal(tok) == tok # <<>> /\ \A i \in 1..Len(tok) : tok[i] \in {"0", "1", "2"}

RECURSIVE Pow10(_)
Pow10(n) == IF n = 0 THEN 1 ELSE 10 * Pow10(n - 1)

RECURSIVE PlaceSum(_, _)
PlaceSum(tok, i) ==
    IF i > Len(tok) THEN 0
    ELSE (Ord(tok[i]) - 48) * Pow10(Len(tok) - i) + PlaceSum(tok, i + 1)

\* The number a decimal token denotes, place by place.
NumberOf(tok) == PlaceSum(tok, 1)

IsDottedDecimal(v) == \A i \in 1..NumTokens(v) : IsDecimal(TokenAt(v, i))

NumbersOf(v) == [i \in 1..NumTokens(v) |-> NumberOf(TokenAt(v, i))]

\* Lexicographic order of two sequences of integers.
RECURSIVE SeqLess(_, _)
SeqLess(x, y) ==
    IF y = <<>> THEN FALSE
    ELSE IF x = <<>> THEN TRUE
    ELSE IF x[1] # y[1] THEN x[1] < y[1]
    ELSE SeqLess(Tail(x), Tail(y))

\* self and other are bases of one distribution with dotted decimal series.
SameDistributionDecimal ==
    /\ Compared
    /\ IsBaseShape(other)
    /\ BaseDistribution(other) = self.distribution
    /\ IsDottedDecimal(self.series)
    /\ IsDottedDecimal(BaseVersion(other))

----------------------------------------------------------------------------
(* C1 *)

\* C1: an ordering operator applied to a base of another distribution
\* raises ValueError, with both distribution identifiers in the message,
\* whatever the two series are.
C1_IncompatibleDistributionsRaise ==
    (/\ Compared
     /\ op \in OrderingOps
     /\ IsBaseShape(other)
     /\ BaseDistribution(other) # self.distribution)
        => /\ outcome = "ValueError"
           /\ Contains(message, self.distribution)
           /\ Contains(message, BaseDistribution(other))

\* An ordering of two series that do not compare (a word against a number),
\* of different distributions: the distributions are reported.
C1_Witness ==
    /\ Compared
    /\ op = ">="
    /\ IsTuple(other) /\ Len(other.items) = 2
    /\ self.distribution = ubuntu /\ other.items[1] = debian
    /\ self.series = <<"a">> /\ other.items[2] = <<"2">>
    /\ outcome = "ValueError"

----------------------------------------------------------------------------
(* C2 *)

\* C2: == against a base of any of the three shapes is true exactly when
\* distribution and series both match as strings, != is its negation, and
\* neither raises.
C2_EqualityStructural ==
    (Compared /\ IsBaseShape(other)) =>
        LET match == /\ self.distribution = BaseDistribution(other)
                     /\ self.series = BaseVersion(other)
        IN  /\ op = "==" => outcome = (IF match THEN "True" ELSE "False")
            /\ op = "!=" => outcome = (IF match THEN "False" ELSE "True")

\* Two series that denote the same numbers and differ as strings are not equal.
C2_Witness ==
    /\ Compared
    /\ op = "=="
    /\ IsTuple(other) /\ Len(other.items) = 2
    /\ self.distribution = other.items[1]
    /\ self.series = <<"0", "2">> /\ other.items[2] = <<"2">>
    /\ outcome = "False"

----------------------------------------------------------------------------
(* C3 *)

\* C3: of two bases of one distribution with dotted decimal series, the one
\* whose sequence of numbers is lexicographically smaller is <, <= and != the
\* other, and the other is > and >= it.
C3_NumericOrdering ==
    SameDistributionDecimal =>
        /\ SeqLess(NumbersOf(self.series), NumbersOf(BaseVersion(other)))
              => /\ op \in {"<", "<=", "!="} => outcome = "True"
                 /\ op \in {">", ">="} => outcome = "False"
        /\ SeqLess(NumbersOf(BaseVersion(other)), NumbersOf(self.series))
              => /\ op \in {">", ">=", "!="} => outcome = "True"
                 /\ op \in {"<", "<="} => outcome = "False"

\* "2" is below "12" as a number though above it as text.
C3_Witness ==
    /\ SameDistributionDecimal
    /\ op = "<"
    /\ self.series = <<"2">> /\ BaseVersion(other) = <<"1", "2">>
    /\ outcome = "True"

----------------------------------------------------------------------------
(* C4 *)

\* C4: an ordering operator applied to a base of the same distribution
\* returns a boolean, whatever the two series are.
C4_OrderingNeverRaises ==
    (/\ Compared
     /\ op \in OrderingOps
     /\ IsBaseShape(other)
     /\ BaseDistribution(other) = self.distribution)
        => outcome \in {"True", "False"}

----------------------------------------------------------------------------
(* C5 *)

ExactlyOneAt(s) ==
    \E i \in 1..Len(s) : s[i] = "@" /\ \A j \in 1..Len(s) : j # i => s[j] # "@"

NoAt(s) == \A i \in 1..Len(s) : s[i] # "@"

\* C5: from_str succeeds exactly on the strings with exactly one "@"; the
\* result's distribution and series are the text before and after the "@",
\* verbatim, and equal DistroBase(d, v) for every d, v without "@" that the
\* string joins; every other string raises ValueError with the string in
\* the message, and no DistroBase is made.
C5_FromStr ==
    op = "from_str" =>
        IF ExactlyOneAt(text)
        THEN /\ outcome = "DistroBase"
             /\ IsDistroBase(value)
             /\ NoAt(value.distribution) /\ NoAt(value.series)
             /\ value.distribution \o <<"@">> \o value.series = text
             /\ \A d, v \in StringsUpTo(BaseStrAlphabet \ {"@"}, Len(text)) :
                    d \o <<"@">> \o v = text
                        => EqExpr(value, DistroBase(d, v)) = Bool(TRUE)
        ELSE /\ outcome = "ValueError"
             /\ value = None
             /\ Contains(message, text)

\* Blanks and capitals on both sides of the "@" are kept.
C5_Witness ==
    /\ op = "from_str"
    /\ text = <<" ", "@", "U">>
    /\ outcome = "DistroBase"
    /\ value = DistroBase(<<" ">>, <<"U">>)

----------------------------------------------------------------------------
(* C6 *)

\* The integer a token denotes to int(): its digits place by place, negated
\* after a "-".
SignedNumberOf(tok) ==
    IF tok[1] = "-" THEN 0 - NumberOf(Tail(tok))
    ELSE IF tok[1] = "+" THEN NumberOf(Tail(tok))
    ELSE NumberOf(tok)

\* C6: the version tuple of v has one element per dot-separated token of v,
\* in order: the token's integer value when the token parses as an integer,
\* the token itself otherwise; the empty string gives ("",).
C6_VersionTuple ==
    op = "_get_version_tuple" =>
        /\ Len(value) = NumTokens(text)
        /\ \A i \in 1..NumTokens(text) :
              LET tok == TokenAt(text, i)
              IN  IF IntParses(tok)
                  THEN value[i] = PyInt(SignedNumberOf(tok))
                  ELSE value[i] = PyStr(tok)
        /\ text = <<>> => value = <<PyStr(<<>>)>>

\* A number with a leading zero, then an empty token.
C6_Witness ==
    /\ op = "_get_version_tuple"
    /\ text = <<"0", "1", ".">>
    /\ value = <<PyInt(1), PyStr(<<>>)>>

----------------------------------------------------------------------------
(* C7 *)

\* "ubuntu" stands in like at position i between whitespace or the ends.
UbuntuTokenAt(like, i) ==
    /\ i + 5 <= Len(like)
    /\ SubSeq(like, i, i + 5) = ubuntu
    /\ i = 1 \/ IsSpace(like[i - 1])
    /\ i + 5 = Len(like) \/ IsSpace(like[i + 6])

\* The descriptor the function judges: its argument, or the host's.
Judged == IF descriptor.shape = "None" THEN host ELSE descriptor

\* C7: is_ubuntu_like is true exactly when the id is "ubuntu" or "ubuntu" is
\* one of the whitespace-separated tokens of the like field.
C7_IsUbuntuLike ==
    op = "is_ubuntu_like" =>
        (outcome = "True") =
            (\/ Judged.id = ubuntu
             \/ \E i \in 1..Len(Judged.like) : UbuntuTokenAt(Judged.like, i))

\* An id and a like token that only contain "ubuntu" do not count.
C7_Witness ==
    /\ op = "is_ubuntu_like"
    /\ descriptor.shape = "LinuxDistribution"
    /\ descriptor.id = <<"x">> \o ubuntu
    /\ descriptor.like = ubuntu \o <<"x", " ">>
    /\ outcome = "False"

----------------------------------------------------------------------------
(* C8 *)

\* C8: == against an operand that is none of the three base shapes is False
\* and raises nothing.
C8_EqualityOtherShapesFalse ==
    (Compared /\ op = "==" /\ ~IsBaseShape(other)) => outcome = "False"

----------------------------------------------------------------------------
(* C9 *)

\* C9: an ordering operator gives a named base and a pair the outcome it
\* gives the DistroBase of the same distribution and version.
C9_ShapesUniform ==
    (Compared /\ op \in OrderingOps /\ IsBaseShape(other)) =>
        LET r == Expr(op, self,
                      DistroBase(BaseDistribution(other), BaseVersion(other)))
        IN  outcome = r.outcome /\ message = r.message

\* A pair of the same distribution with the smaller version.
C9_Witness ==
    /\ Compared
    /\ op = ">"
    /\ IsTuple(other) /\ Len(other.items) = 2
    /\ other.items[1] = self.distribution
    /\ self.series = <<"1", "2">> /\ other.items[2] = <<"2", ".", "a">>
    /\ outcome = "True"

----------------------------------------------------------------------------
(* C10 *)

TwoOfOneDistribution ==
    /\ Compared
    /\ IsDistroBase(other)
    /\ other.distribution = self.distribution

HowManyHold == Cardinality({rel \in {"<", "==", ">"} : Holds(rel)})

\* The two orderings raise (an int meets a str where the tuples first differ).
OrderingRaises == Raised(__lt__(self, other))

SameVersionTuple == _get_version_tuple(self.series) = _get_version_tuple(other.series)

\* C10 as claimed, on the series whose ordering returns: of two DistroBase of
\* one distribution exactly one of <, == and > holds, <= together with >=
\* gives ==, and A < B is B > A.
C10_Trichotomy ==
    (TwoOfOneDistribution /\ op \in {"<", "==", ">"} /\ ~OrderingRaises) =>
        /\ HowManyHold = 1
        /\ (Holds("<=") /\ Holds(">=")) => Holds("==")
        /\ Holds("<") = (__gt__(other, self) = Bool(TRUE))

\* C10 as amended: at most one of <, == and > holds, and exactly one unless
\* the ordering raises or the two series are different strings with the same
\* version tuple; == gives <= and >=; A < B is B > A.
C10_TrichotomyAmended ==
    (TwoOfOneDistribution /\ op \in {"<", "==", ">", "<=", ">="}) =>
        /\ HowManyHold =
              (IF OrderingRaises \/ (SameVersionTuple /\ self.series # other.series)
               THEN 0 ELSE 1)
        /\ Holds("==") => (Holds("<=") /\ Holds(">="))
        /\ Holds("<") = (__gt__(other, self) = Bool(TRUE))

\* "2" and "02": neither below, nor equal, nor above, and both <= and >=.
C10_Witness ==
    /\ TwoOfOneDistribution
    /\ op = "<="
    /\ self.series = <<"2">> /\ other.series = <<"0", "2">>
    /\ outcome = "True"
    /\ HowManyHold = 0

====
